---- MODULE Spec2Model ----
(***************************************************************************)
(* Model of the MCVM GUI shell: the application root (App, Layout), the    *)
(* navigation bar (NavBar) and the IconButton control.                     *)
(*                                                                         *)
(* App owns one reactive cell (selectedInstance) created with createSignal *)
(* and hands its setter to LaunchPage as onSelectInstance.  The router     *)
(* root renders Layout, which puts NavBar, the routed page and             *)
(* LaunchFooter one after the other and forwards the cell's value to the   *)
(* footer.  IconButton turns its props into one <div> with an interpolated *)
(* style string, the caller's click handler and one Icon child.  The body  *)
(* of a component runs once, when the instance is created: colorStyle and  *)
(* the click binding are fixed then, while the style attribute and the     *)
(* props of Icon are expressions over props that are evaluated again when  *)
(* a prop they read changes.                                               *)
(***************************************************************************)
EXTENDS Integers, Sequences, FiniteSets, TLC

(***************************************************************************)
(* Bounds of the model.                                                    *)
(***************************************************************************)
MaxSetterCalls == 3
MaxClicks == 2

(***************************************************************************)
(* Input domains.                                                          *)
(***************************************************************************)
\* `string | null`: null is the empty option, an identifier v is <<v>>.
Null == <<>>
Some(v) == <<v>>
InstanceIds == {"v1", "v2"}
SelectedInstanceValues == {Null} \cup {Some(v) : v \in InstanceIds}

\* Locations the router can be sent to: the root path and one other path.
Paths == {"/", "/settings"}

\* Free-form style strings; the last one of each set is malformed.
WellFormedColors == {"#fff", "red"}
MalformedColors == {"re d;:x"}
Colors == WellFormedColors \cup MalformedColors
WellFormedSizes == {"2rem"}
MalformedSizes == {";4 px"}
Sizes == WellFormedSizes \cup MalformedSizes
Icons == {"Play", "Box"}
Handlers == {"h1", "h2"}
Events == {"e1", "e2"}

IconButtonProps ==
    [icon : Icons, color : Colors, selectedColor : Colors, size : Sizes,
     selected : BOOLEAN, onClick : Handlers]

(***************************************************************************)
(* IconButton.tsx                                                          *)
(***************************************************************************)
\* const colorStyle = props.selected ? `...selectedColor...` : `...color...`
colorStyle(props) ==
    IF props.selected
    THEN "background-color:" \o props.selectedColor
             \o ";border-color:" \o props.selectedColor
    ELSE "background-color:" \o props.color \o ";border-color:" \o props.color

IconSize_full(size) == "calc(" \o size \o " * 1)"

\* size={`calc(${props.size} * 0.7)`}
IconSize(size) == "calc(" \o size \o " * 0.7)"

\* style={`${colorStyle};width:${props.size};height:${props.size}`}
StyleText(cs, size) == cs \o ";width:" \o size \o ";height:" \o size

\* <Icon icon={props.icon} size={`calc(${props.size} * 0.7)`} />
IconElement(props) ==
    [component |-> "Icon",
     props |-> [icon |-> props.icon, size |-> IconSize(props.size)]]

\* The element a call of IconButton creates for its props.
IconButton(props) ==
    [tag |-> "div",
     class |-> "icon-button border",
     style |-> StyleText(colorStyle(props), props.size),
     onClick |-> props.onClick,
     children |-> <<IconElement(props)>>]

\* The values a prop of IconButtonProps can be given.
PropValues(field) ==
    CASE field = "icon" -> Icons
      [] field = "color" -> Colors
      [] field = "selectedColor" -> Colors
      [] field = "size" -> Sizes
      [] field = "selected" -> BOOLEAN
      [] field = "onClick" -> Handlers

(***************************************************************************)
(* NavBar (second component of IconButton.tsx)                             *)
(***************************************************************************)
\* The spacer, and the bar with its one link to the homepage.
NavBar ==
    [component |-> "NavBar",
     props |-> [gap |-> "navbar-gap", id |-> "navbar", href |-> "/",
                text |-> "MCVM"]]

(***************************************************************************)
(* App and Layout                                                          *)
(***************************************************************************)
InitialSelectedInstance_v1 == Some("v1")

\* createSignal<string | null>(null)
InitialSelectedInstance == Null

\* <Route path="/" component={() => <LaunchPage onSelectInstance=... />} />
Routes ==
    {[path |-> "/",
      component |-> [component |-> "LaunchPage",
                     props |-> [onSelectInstance |-> "setSelectedInstance"]]]}

\* The routed content for a location: the component of the matching route.
RouteChildren(path) ==
    IF \E r \in Routes : r.path = path
    THEN <<(CHOOSE r \in Routes : r.path = path).component>>
    ELSE <<>>

Layout_footerFirst(props) ==
    <<[component |-> "LaunchFooter",
       props |-> [selectedInstance |-> props.selectedInstance]]>>
        \o props.children \o <<NavBar>>

\* <NavBar /> {props.children} <LaunchFooter selectedInstance=... />
Layout(props) ==
    <<NavBar>> \o props.children
        \o <<[component |-> "LaunchFooter",
              props |-> [selectedInstance |-> props.selectedInstance]]>>

RootProps_snapshot(children, current) ==
    [children |-> children, selectedInstance |-> InitialSelectedInstance]

\* root={({ children }) => <Layout children={children}
\*                                 selectedInstance={selectedInstance()} />}
RootProps(children, current) ==
    [children |-> children, selectedInstance |-> current]

\* What the router shows at a location for a value of the cell.
Render(path, current) == Layout(RootProps(RouteChildren(path), current))

\* onClick={props.onClick}: one call of the handler with the event.
Dispatch(handler, e) == <<[handler |-> handler, event |-> e]>>

(***************************************************************************)
(* State                                                                   *)
(***************************************************************************)
VARIABLES
    selectedInstance,   \* the cell of createSignal in App
    location,           \* the router's current path
    view,               \* the elements the router root shows
    setterCalls,        \* arguments of the calls of the setter, in order
    props,              \* the current props of the IconButton instance
    instanceColorStyle, \* the const colorStyle of the instance
    button,             \* the element of the instance
    clickEvents,        \* the click events on the container, in order
    onClickCalls        \* the calls made of click handlers, in order

vars == <<selectedInstance, location, view, setterCalls, props,
          instanceColorStyle, button, clickEvents, onClickCalls>>

appVars == <<selectedInstance, location, view, setterCalls>>
buttonVars == <<props, instanceColorStyle, button, clickEvents, onClickCalls>>

Init ==
    /\ selectedInstance = InitialSelectedInstance
    /\ location = "/"
    /\ view = Render("/", selectedInstance)
    /\ setterCalls = <<>>
    /\ props \in IconButtonProps
    /\ instanceColorStyle = colorStyle(props)
    /\ button = IconButton(props)
    /\ clickEvents = <<>>
    /\ onClickCalls = <<>>

(***************************************************************************)
(* Operations                                                              *)
(***************************************************************************)
onSelectInstance_deferred(v) ==
    /\ Len(setterCalls) < MaxSetterCalls
    /\ selectedInstance' = v
    /\ setterCalls' = Append(setterCalls, v)
    /\ UNCHANGED <<view, location, buttonVars>>

\* LaunchPage calls onSelectInstance(v): the cell is written and the views
\* that read it are updated in the same pass.
onSelectInstance(v) ==
    /\ Len(setterCalls) < MaxSetterCalls
    /\ selectedInstance' = v
    /\ setterCalls' = Append(setterCalls, v)
    /\ view' = Render(location, selectedInstance')
    /\ UNCHANGED <<location, buttonVars>>

Navigate_resetting(path) ==
    /\ location' = path
    /\ selectedInstance' = InitialSelectedInstance
    /\ view' = Render(path, selectedInstance')
    /\ UNCHANGED <<setterCalls, buttonVars>>

\* The router is sent to a path and shows the root with the matching route.
Navigate(path) ==
    /\ location' = path
    /\ view' = Render(path, selectedInstance)
    /\ UNCHANGED <<selectedInstance, setterCalls, buttonVars>>

\* A click on the NavBar link: <a href="/">.
ClickHomeLink ==
    /\ NavBar \in {view[i] : i \in 1..Len(view)}
    /\ Navigate(NavBar.props.href)

\* The caller changes one prop of the live instance.  The expressions that
\* read props are evaluated again: the style attribute, from the instance's
\* colorStyle and the new size, and the props of Icon.  The click binding
\* is the one made at creation.
SetProp(field, value) ==
    /\ value # props[field]
    /\ props' = [props EXCEPT ![field] = value]
    /\ button' = [button EXCEPT
                      !.style = StyleText(instanceColorStyle, props'.size),
                      !.children = <<IconElement(props')>>]
    /\ UNCHANGED <<appVars, instanceColorStyle, clickEvents, onClickCalls>>

\* A click event e on the container of the IconButton.
ClickIconButton(e) ==
    /\ Len(clickEvents) < MaxClicks
    /\ clickEvents' = Append(clickEvents, e)
    /\ onClickCalls' = onClickCalls \o Dispatch(button.onClick, e)
    /\ UNCHANGED <<appVars, props, instanceColorStyle, button>>

\* The steps of the application root, with the clicks on a rendered button.
NextApp ==
    \/ \E v \in SelectedInstanceValues : onSelectInstance(v)
    \/ \E path \in Paths : Navigate(path)
    \/ ClickHomeLink
    \/ \E e \in Events : ClickIconButton(e)

\* The steps of an IconButton instance: its caller's changes of props and
\* the clicks on it.
NextButton ==
    \/ \E field \in DOMAIN props : \E value \in PropValues(field) :
           SetProp(field, value)
    \/ \E e \in Events : ClickIconButton(e)

Next == NextApp \/ NextButton

Spec == Init /\ [][Next]_vars
SpecApp == Init /\ [][NextApp]_vars
SpecButton == Init /\ [][NextButton]_vars

(***************************************************************************)
(* Properties                                                              *)
(***************************************************************************)
\* The LaunchFooter element of the view, and the value it was given.
Footer == CHOOSE el \in {view[i] : i \in 1..Len(view)} :
              el.component = "LaunchFooter"
FooterSelectedInstance == Footer.props.selectedInstance
ViewComponents == [i \in 1..Len(view) |-> view[i].component]

\* The text of `style` that starts at position pos is `text`.
TextAt(style, pos, text) == SubSeq(style, pos, pos + Len(text) - 1) = text
\* `style` ends with `text`.
EndsWith(style, text) ==
    /\ Len(style) >= Len(text)
    /\ TextAt(style, Len(style) - Len(text) + 1, text)
ChosenColor == IF props.selected THEN props.selectedColor ELSE props.color
HasMalformedString ==
    \/ props.size \in MalformedSizes
    \/ props.color \in MalformedColors
    \/ props.selectedColor \in MalformedColors

\* C1: once the setter has been called, the footer is given the argument of
\* the most recent call: v after a call with v, null again after a later
\* call with null.
C1_FooterReceivesLastSetterArgument ==
    setterCalls # <<>> => FooterSelectedInstance = setterCalls[Len(setterCalls)]

C1_Witness ==
    /\ setterCalls = <<Some("v1"), Null>>
    /\ FooterSelectedInstance = Null

\* C2: before any call of the setter the cell holds null and the footer is
\* given null.
C2_InitiallyNull ==
    setterCalls = <<>> =>
        selectedInstance = Null /\ FooterSelectedInstance = Null

C2_Witness ==
    /\ setterCalls = <<>>
    /\ FooterSelectedInstance = Null
    /\ location = "/settings"
    /\ clickEvents # <<>>

\* C3: the cell has one writer: every step that changes its value is a call
\* of the setter handed to LaunchPage; renders, navigation and clicks on an
\* IconButton leave it alone.
C3_SingleWriter ==
    [][selectedInstance' # selectedInstance =>
           \E v \in SelectedInstanceValues : onSelectInstance(v)]_vars

C3_Witness ==
    /\ selectedInstance = Some("v1")
    /\ location = "/settings"
    /\ clickEvents # <<>>
    /\ props.selected

\* C4: in every state between two events the value the footer shows is the
\* current value of the cell.
C4_FooterShowsCell == FooterSelectedInstance = selectedInstance

C4_Witness ==
    /\ Len(setterCalls) = 2
    /\ setterCalls[1] # setterCalls[2]
    /\ selectedInstance = Some("v2")
    /\ FooterSelectedInstance = Some("v2")

\* C5: the style names selectedColor as background-color and border-color
\* when selected is true and color when it is false, whatever the icon, the
\* size and the handler are.  Violated: the colours are those chosen when
\* the instance was created and do not follow selected, color or
\* selectedColor afterwards.
C5_ColorBySelected ==
    /\ TextAt(button.style, 1, "background-color:" \o ChosenColor \o ";")
    /\ TextAt(button.style, Len("background-color:" \o ChosenColor \o ";") + 1,
              "border-color:" \o ChosenColor \o ";")

\* C6: every click on the container makes exactly one call of the caller's
\* onClick, with the event of that click, and no other step makes a call.
\* Violated: the handler called is the onClick of the creation, not the one
\* the caller has given since.
C6_OneCallPerClick ==
    [][/\ clickEvents' # clickEvents =>
              onClickCalls' =
                  Append(onClickCalls,
                         [handler |-> props.onClick,
                          event |-> clickEvents'[Len(clickEvents')]])
       /\ clickEvents' = clickEvents => onClickCalls' = onClickCalls]_vars

\* C7: a click changes neither the props nor the rendered element, and the
\* element is at every step the one IconButton returns for the props.
\* Violated: after a change of props the element still carries the colours
\* and the handler of the creation.
C7_ClickKeepsSelected ==
    [][/\ clickEvents' # clickEvents => props' = props /\ button' = button
       /\ button' = IconButton(props')]_vars

\* C8: for a valid size the container has width and height size and the
\* icon has size calc(size * 0.7).
C8_IconSeventyPercent ==
    props.size \in WellFormedSizes =>
        /\ EndsWith(button.style,
                    ";width:" \o props.size \o ";height:" \o props.size)
        /\ Len(button.children) = 1
        /\ button.children[1].props.size = "calc(" \o props.size \o " * 0.7)"

C8_Witness ==
    /\ instanceColorStyle # colorStyle(props)
    /\ clickEvents # <<>>
    /\ props.size = "2rem"
    /\ EndsWith(button.style, ";width:2rem;height:2rem")
    /\ button.children[1].props.size = "calc(2rem * 0.7)"

\* C9: at "/" the view is NavBar, then the launch page, then the footer;
\* no other location shows the launch page.
C9_RootRouteOrder ==
    /\ location = "/" =>
           ViewComponents = <<"NavBar", "LaunchPage", "LaunchFooter">>
    /\ location # "/" => \A i \in 1..Len(view) : view[i].component # "LaunchPage"

C9_Witness ==
    /\ location = "/"
    /\ Len(setterCalls) = 2
    /\ selectedInstance # Null
    /\ ViewComponents = <<"NavBar", "LaunchPage", "LaunchFooter">>

\* C10: with a malformed size or colour string the render still yields the
\* container, and the strings stand unchanged in its style.  Violated: a
\* colour given after the creation does not reach the style.
C10_MalformedPassThrough ==
    HasMalformedString =>
        /\ button.tag = "div"
        /\ button.style =
               "background-color:" \o ChosenColor \o ";border-color:"
                   \o ChosenColor \o ";width:" \o props.size
                   \o ";height:" \o props.size

====
